---- MODULE Spec2Model ----
(***************************************************************************)
(* A model of commit_analyzer.py: the diff parser (analyze_file_changes,   *)
(* analyze_diff_changes), the line classifier (analyze_line_content,       *)
(* analyze_context), the message composer (generate_commit_type,           *)
(* generate_commit_scope, generate_detailed_commit_description) and the    *)
(* two drivers (analyze_changes, main).                                    *)
(*                                                                         *)
(* Python strings are TLA+ strings; a character is a string of length 1    *)
(* and s[i] is SubSeq(s, i, i).  Python's None is the value None below,    *)
(* which no input contains.  A code point outside ASCII is written by its  *)
(* name (U+1F512), since a module holds ASCII only.                        *)
(***************************************************************************)
EXTENDS Naturals, Integers, Sequences, FiniteSets, TLC

VARIABLES
    pc,               \* position of the running entry point
    entry,            \* input: the entry point run, analyze_changes or main
    diff,             \* input: the staged diff text
    history,          \* input: the commit messages, most recent first
    fs,               \* input: what reading a modified file's structure gives
    answer,           \* input: the user's answer to the confirmation prompt
    split_lines,      \* diff.split('\n') of the pass that is running
    line_no,          \* the loop index of the pass that is running
    commit_patterns,  \* learn_from_github_commits' record
    file_changes,     \* analyze_file_changes' record
    diff_pass,        \* analyze_diff_changes' locals while it runs
    code_changes,     \* analyze_diff_changes' result
    commit_type,      \* generate_commit_type's result
    commit_scope,     \* generate_commit_scope's result
    commit_desc,      \* generate_detailed_commit_description's result
    result,           \* what analyze_changes returned
    commit_message,   \* main's commit_message
    calls,            \* the functions and collaborators called, in order
    committed         \* the messages handed to repo.git.commit, in order

vars == <<pc, entry, diff, history, fs, answer, split_lines, line_no, commit_patterns,
          file_changes, diff_pass, code_changes, commit_type, commit_scope,
          commit_desc, result, commit_message, calls, committed>>

None == "<None>"

(***************************************************************************)
(* Python's str operations.                                                *)
(***************************************************************************)
Ch(s, i) == SubSeq(s, i, i)

\* s[n:]
From(s, n) == IF n >= Len(s) THEN "" ELSE SubSeq(s, n + 1, Len(s))

\* s.startswith(p)
StartsWith(s, p) == Len(s) >= Len(p) /\ SubSeq(s, 1, Len(p)) = p

\* the positions where sub occurs in s
Occurrences(s, sub) ==
    {i \in 1..(Len(s) - Len(sub) + 1) : SubSeq(s, i, i + Len(sub) - 1) = sub}

\* sub in s
Contains(s, sub) == Occurrences(s, sub) # {}

Min(S) == CHOOSE x \in S : \A y \in S : x <= y

Max(S) == CHOOSE x \in S : \A y \in S : x >= y

\* the members of a set of numbers, in increasing order
Ascending(S) ==
    [k \in 1..Cardinality(S) |-> CHOOSE x \in S : Cardinality({y \in S : y < x}) = k - 1]

\* s.split(sep), for a separator no two occurrences of which overlap
\* ("\n", " ", "/", "(", "def ", "class ")
Split(s, sep) ==
    LET at == Ascending(Occurrences(s, sep))
        n == Len(at)
    IN  [k \in 1..(n + 1) |->
            SubSeq(s, IF k = 1 THEN 1 ELSE at[k - 1] + Len(sep),
                      IF k = n + 1 THEN Len(s) ELSE at[k] - 1)]

\* s.split(sep, 1)
SplitOnce(s, sep) ==
    IF ~Contains(s, sep) THEN <<s>>
    ELSE LET i == Min(Occurrences(s, sep))
         IN  <<SubSeq(s, 1, i - 1), From(s, i + Len(sep) - 1)>>

IsSpace(c) == c \in {" ", "\t", "\n", "\r"}

\* s.lstrip(), s.rstrip(), s.strip()
RECURSIVE LStrip(_)
LStrip(s) == IF s # "" /\ IsSpace(Ch(s, 1)) THEN LStrip(From(s, 1)) ELSE s

RECURSIVE RStrip(_)
RStrip(s) ==
    IF s # "" /\ IsSpace(Ch(s, Len(s))) THEN RStrip(SubSeq(s, 1, Len(s) - 1)) ELSE s

Strip(s) == RStrip(LStrip(s))

\* s.split(): the maximal runs of non-space characters
RECURSIVE SplitWS(_)
SplitWS(s) ==
    LET t == LStrip(s)
        spaces == {i \in 1..Len(t) : IsSpace(Ch(t, i))}
    IN  IF t = "" THEN <<>>
        ELSE IF spaces = {} THEN <<t>>
        ELSE <<SubSeq(t, 1, Min(spaces) - 1)>> \o SplitWS(From(t, Min(spaces)))

Upper == "ABCDEFGHIJKLMNOPQRSTUVWXYZ"

LowerAlpha == "abcdefghijklmnopqrstuvwxyz"

LowerCh(c) ==
    IF Contains(Upper, c) THEN Ch(LowerAlpha, Min(Occurrences(Upper, c))) ELSE c

\* s.lower(); the string is halved so that the evaluation is not nested
\* once per character
RECURSIVE Lower(_)
Lower(s) ==
    IF s = "" THEN ""
    ELSE IF Len(s) = 1 THEN LowerCh(s)
    ELSE Lower(SubSeq(s, 1, Len(s) \div 2)) \o Lower(From(s, Len(s) \div 2))

\* sep.join(parts[lo..hi]), halved likewise
RECURSIVE JoinRange(_, _, _, _)
JoinRange(parts, lo, hi, sep) ==
    IF lo > hi THEN ""
    ELSE IF lo = hi THEN parts[lo]
    ELSE JoinRange(parts, lo, (lo + hi) \div 2, sep) \o sep
         \o JoinRange(parts, ((lo + hi) \div 2) + 1, hi, sep)

\* sep.join(parts)
Join(parts, sep) == JoinRange(parts, 1, Len(parts), sep)

\* re's \w on the characters the inputs use
IsWord(c) == Contains(Upper \o LowerAlpha \o "0123456789_", c)

(***************************************************************************)
(* analyze_file_changes(diff): one pass over diff.split('\n'), one line a  *)
(* step.  The record carries current_file and `raised`, the exception that *)
(* ended the pass ("" when none).                                          *)
(* file_types and content_changes are written here and read nowhere in the *)
(* composer, so they are not carried.                                      *)
(***************************************************************************)
FileChanges0 ==
    [files |-> {}, added_files |-> {}, deleted_files |-> {},
     modified_files |-> {}, renamed_files |-> {}, current_file |-> None,
     raised |-> ""]

\* next(line for line in diff.split('\n') if line.startswith('rename to'))
RenameToLines(lines) == {i \in 1..Len(lines) : StartsWith(lines[i], "rename to")}

FirstRenameTo(lines) == lines[Min(RenameToLines(lines))]

\* the body of the loop, for one line
FileChangesLine(ch, line, lines) ==
    IF StartsWith(line, "diff --git") THEN
        LET parts == SplitWS(line)
        IN  IF Len(parts) < 4 THEN [ch EXCEPT !.raised = "IndexError"]
            ELSE LET b_path == From(parts[4], 2)
                 IN  [ch EXCEPT !.current_file = b_path,
                                !.files = @ \cup {b_path}]
    ELSE IF StartsWith(line, "new file mode") THEN
        [ch EXCEPT !.added_files = @ \cup {ch.current_file}]
    ELSE IF StartsWith(line, "deleted file mode") THEN
        [ch EXCEPT !.deleted_files = @ \cup {ch.current_file}]
    ELSE IF StartsWith(line, "rename from") THEN
        IF Len(Split(line, " ")) < 3 THEN [ch EXCEPT !.raised = "IndexError"]
        ELSE IF RenameToLines(lines) = {} THEN [ch EXCEPT !.raised = "StopIteration"]
        ELSE IF Len(Split(FirstRenameTo(lines), " ")) < 3
             THEN [ch EXCEPT !.raised = "IndexError"]
        ELSE LET old_file == Split(line, " ")[3]
                 new_file == Split(FirstRenameTo(lines), " ")[3]
             IN  [ch EXCEPT !.renamed_files = @ \cup {<<old_file, new_file>>}]
    ELSE ch

AllRenamed(ch) ==
    {r[1] : r \in ch.renamed_files} \cup {r[2] : r \in ch.renamed_files}

ModifiedFiles(ch) ==
    ((ch.files \ ch.added_files) \ ch.deleted_files) \ AllRenamed(ch)

(***************************************************************************)
(* analyze_diff_changes' record.  semantic_changes is the insertion-       *)
(* ordered dict file -> notes, kept as a sequence of [file, notes].        *)
(***************************************************************************)
CodeMetrics0 ==
    [lines_added |-> 0, lines_removed |-> 0, files_changed |-> 0,
     complexity_changes |-> 0, functions_added |-> 0, functions_modified |-> 0,
     classes_added |-> 0, classes_modified |-> 0, imports_added |-> 0,
     imports_removed |-> 0]

CodeChanges0 ==
    [security |-> <<>>, features |-> <<>>, fixes |-> <<>>, refactors |-> <<>>,
     performance |-> <<>>, components |-> <<>>, dependencies |-> <<>>,
     scripts |-> <<>>, tests |-> <<>>, docs |-> <<>>, config |-> <<>>,
     style |-> <<>>, added_lines |-> <<>>, removed_lines |-> <<>>,
     semantic_changes |-> <<>>, code_metrics |-> CodeMetrics0, raised |-> ""]

Categories ==
    {"security", "features", "fixes", "refactors", "performance", "components",
     "dependencies", "scripts", "tests", "docs", "config", "style"}

\* changes['semantic_changes'][file].append(note)
AddNote(sc, file, note) ==
    IF \E i \in 1..Len(sc) : sc[i].file = file
    THEN [i \in 1..Len(sc) |->
            IF sc[i].file = file
            THEN [sc[i] EXCEPT !.notes = Append(@, note)] ELSE sc[i]]
    ELSE Append(sc, [file |-> file, notes |-> <<note>>])

\* changes[cat].append(file); changes['semantic_changes'][file].append(note)
Tag(ch, cat, file, note) ==
    [ch EXCEPT ![cat] = Append(@, file),
               !.semantic_changes = AddNote(@, file, note)]

\* line.split(kw)[1].split('(')[0].strip(), for a line that contains kw
DeclaredName(line, kw) == Strip(Split(Split(line, kw)[2], "(")[1])

\* re.search(r'^import\s+|^from\s+.*\s+import\s+', line)
ImportRe(line) ==
    \/ StartsWith(line, "import") /\ Len(line) >= 7 /\ IsSpace(Ch(line, 7))
    \/ /\ StartsWith(line, "from") /\ Len(line) >= 5 /\ IsSpace(Ch(line, 5))
       /\ \E i \in Occurrences(line, "import") :
            /\ i >= 7 /\ IsSpace(Ch(line, i - 1))
            /\ Len(line) >= i + 6 /\ IsSpace(Ch(line, i + 6))

\* '#\s*\w+' matches at some position of line
HashWord(line) ==
    \E i \in Occurrences(line, "#") :
        \E j \in (i + 1)..Len(line) :
            /\ IsWord(Ch(line, j))
            /\ \A k \in (i + 1)..(j - 1) : IsSpace(Ch(line, k))

\* re.search(r'"""|\'\'\'|#\s*\w+', line)
DocRe(line) ==
    Contains(line, "\"\"\"") \/ Contains(line, "'''") \/ HashWord(line)

\* re.search('k1|k2|...', line, re.IGNORECASE) for literal alternatives
AnyIgnoreCase(line, kws) ==
    LET low == Lower(line) IN \E k \in kws : Contains(low, k)

ConfigRe(line) ==
    AnyIgnoreCase(line, {"config", "settings", "env", ".env", ".json", ".yaml", ".yml"})

\* a variant of SecurityRe that has lost its first keyword
SecurityReNoPassword(line) ==
    AnyIgnoreCase(line, {"secret", "key", "token", "auth", "crypt"})

SecurityRe(line) ==
    AnyIgnoreCase(line, {"password", "secret", "key", "token", "auth", "crypt"})

FixRe(line) ==
    AnyIgnoreCase(line, {"fix", "bug", "error", "exception", "issue", "crash", "problem"})

PerformanceRe(line) ==
    AnyIgnoreCase(line, {"performance", "optimize", "speed", "memory", "cpu", "cache"})

RefactorRe(line) ==
    AnyIgnoreCase(line, {"refactor", "cleanup", "improve", "enhance", "update"})

\* analyze_line_content(line, file, changes): the elif chain, in its order
\* a variant of analyze_line_content whose rules are independent ifs: a line
\* is tagged by every rule it matches
analyze_line_content_every_rule(line, file, ch) ==
    LET c1 == IF ConfigRe(line)
              THEN Tag(ch, "config", file, "update configuration") ELSE ch
        c2 == IF SecurityRe(line)
              THEN Tag(c1, "security", file, "enhance security") ELSE c1
        c3 == IF FixRe(line) THEN Tag(c2, "fixes", file, "fix issues") ELSE c2
    IN  IF PerformanceRe(line)
        THEN Tag(c3, "performance", file, "improve performance") ELSE c3

analyze_line_content(line, file, ch) ==
    IF Contains(line, "def ") THEN
        LET func_name == DeclaredName(line, "def ")
        IN  IF Contains(func_name, "test_")
            THEN Tag(ch, "tests", file, "add test function " \o func_name)
            ELSE Tag(ch, "features", file, "add function " \o func_name)
    ELSE IF Contains(line, "class ") THEN
        LET class_name == DeclaredName(line, "class ")
        IN  IF Contains(class_name, "Test")
            THEN Tag(ch, "tests", file, "add test class " \o class_name)
            ELSE Tag(ch, "features", file, "add class " \o class_name)
    ELSE IF ImportRe(line) THEN Tag(ch, "dependencies", file, "update dependencies")
    ELSE IF DocRe(line) THEN Tag(ch, "docs", file, "update documentation")
    ELSE IF ConfigRe(line) THEN Tag(ch, "config", file, "update configuration")
    ELSE IF SecurityRe(line) THEN Tag(ch, "security", file, "enhance security")
    ELSE IF FixRe(line) THEN Tag(ch, "fixes", file, "fix issues")
    ELSE IF PerformanceRe(line) THEN Tag(ch, "performance", file, "improve performance")
    ELSE IF RefactorRe(line) THEN Tag(ch, "refactors", file, "refactor code")
    ELSE ch

(***************************************************************************)
(* analyze_context(changes, file, context_lines): six passes over the      *)
(* lines of kind 'context' of one file section.                            *)
(***************************************************************************)
\* [line for type_, line in context_lines if type_ == kind]
\* a variant of the filter of analyze_context that keeps the lines of every
\* event, whatever its type
OfKindAny(events, kind) == [k \in 1..Len(events) |-> events[k][2]]

OfKind(events, kind) ==
    LET at == Ascending({j \in 1..Len(events) : events[j][1] = kind})
    IN  [k \in 1..Len(at) |-> events[at[k]][2]]

\* context_lines[max(0, i-2):min(len(context_lines), i+3)], i counted from 1
Surrounding(ctx, i) == SubSeq(ctx, Max({1, i - 2}), Min({Len(ctx), i + 2}))

\* any(kw in l.lower() for l in surrounding_lines), for some kw of kws
AnyLower(w, kws) ==
    \E j \in 1..Len(w) : LET low == Lower(w[j]) IN \E k \in kws : Contains(low, k)

FunctionContext(ch, file, ctx, i) ==
    IF ~Contains(ctx[i], "def ") THEN ch
    ELSE LET func_name == DeclaredName(ctx[i], "def ")
             w == Surrounding(ctx, i)
         IN  IF AnyLower(w, {"test"})
             THEN Tag(ch, "tests", file, "add test for " \o func_name)
             ELSE IF AnyLower(w, {"doc"}) \/ \E j \in 1..Len(w) : Contains(w[j], "\"\"\"")
             THEN Tag(ch, "docs", file, "add documentation for " \o func_name)
             ELSE Tag(ch, "features", file, "add " \o func_name \o " function")

ClassContext(ch, file, ctx, i) ==
    IF ~Contains(ctx[i], "class ") THEN ch
    ELSE LET class_name == DeclaredName(ctx[i], "class ")
             w == Surrounding(ctx, i)
         IN  IF AnyLower(w, {"test"})
             THEN Tag(ch, "tests", file, "add test class " \o class_name)
             ELSE IF AnyLower(w, {"model", "schema"})
             THEN Tag(ch, "components", file, "add " \o class_name \o " model")
             ELSE Tag(ch, "features", file, "add " \o class_name \o " class")

ConfigContext(ch, file, ctx, i) ==
    IF ~AnyLower(<<ctx[i]>>, {"config", "settings", "env"}) THEN ch
    ELSE LET w == Surrounding(ctx, i)
         IN  IF AnyLower(w, {"test"})
             THEN Tag(ch, "tests", file, "add test configuration")
             ELSE IF AnyLower(w, {"security", "auth"})
             THEN Tag(ch, "security", file, "add security configuration")
             ELSE Tag(ch, "config", file, "add configuration")

DependencyContext(ch, file, ctx, i) ==
    IF ~AnyLower(<<ctx[i]>>, {"import ", "from ", "require"}) THEN ch
    ELSE LET w == Surrounding(ctx, i)
         IN  IF AnyLower(w, {"test"})
             THEN Tag(ch, "tests", file, "add test dependencies")
             ELSE Tag(ch, "dependencies", file, "add dependencies")

TestContext(ch, file, ctx, i) ==
    IF ~AnyLower(<<ctx[i]>>, {"test_", "assert", "pytest", "unittest"}) THEN ch
    ELSE LET w == Surrounding(ctx, i)
         IN  IF AnyLower(w, {"mock", "patch"})
             THEN Tag(ch, "tests", file, "add mock tests")
             ELSE Tag(ch, "tests", file, "add tests")

DocContext(ch, file, ctx, i) ==
    IF ~AnyLower(<<ctx[i]>>, {"\"\"\"", "'''", "#", "docstring"}) THEN ch
    ELSE LET w == Surrounding(ctx, i)
         IN  IF AnyLower(w, {"api", "endpoint"})
             THEN Tag(ch, "docs", file, "add API documentation")
             ELSE Tag(ch, "docs", file, "add documentation")

\* the body of the k-th of the six loops, for line i
ContextStep(k, ch, file, ctx, i) ==
    CASE k = 1 -> FunctionContext(ch, file, ctx, i)
      [] k = 2 -> ClassContext(ch, file, ctx, i)
      [] k = 3 -> ConfigContext(ch, file, ctx, i)
      [] k = 4 -> DependencyContext(ch, file, ctx, i)
      [] k = 5 -> TestContext(ch, file, ctx, i)
      [] k = 6 -> DocContext(ch, file, ctx, i)

\* loops k..6, loop k from line i on
RECURSIVE ContextLoops(_, _, _, _, _)
ContextLoops(k, ch, file, ctx, i) ==
    IF k > 6 THEN ch
    ELSE IF i > Len(ctx) THEN ContextLoops(k + 1, ch, file, ctx, 1)
    ELSE ContextLoops(k, ContextStep(k, ch, file, ctx, i), file, ctx, i + 1)

analyze_context(ch, file, events) ==
    IF events = <<>> THEN ch
    ELSE ContextLoops(1, ch, file, OfKind(events, "context"), 1)

(***************************************************************************)
(* analyze_diff_changes(diff_lines, original_content): one pass over the   *)
(* lines, one line a step.  st carries the record, current_file and        *)
(* context_lines.                                                          *)
(***************************************************************************)
\* Python's truth value of a str or None
Truthy(s) == s # None /\ s # ""

DiffState0 == [changes |-> CodeChanges0, current_file |-> None, context_lines |-> <<>>]

\* a removed line of a known file: only a declaration is looked at
RemovedLine(ch, file, content) ==
    IF Contains(content, "def ") THEN
        [ch EXCEPT !.code_metrics.functions_modified = @ + 1,
                   !.semantic_changes =
                       AddNote(@, file, "modify " \o DeclaredName(content, "def ") \o " function")]
    ELSE IF Contains(content, "class ") THEN
        [ch EXCEPT !.code_metrics.classes_modified = @ + 1,
                   !.semantic_changes =
                       AddNote(@, file, "modify " \o DeclaredName(content, "class ") \o " class")]
    ELSE ch

\* if current_file and context_lines: analyze_context(...)
FlushContext(st) ==
    IF Truthy(st.current_file) /\ st.context_lines # <<>>
    THEN analyze_context(st.changes, st.current_file, st.context_lines)
    ELSE st.changes

\* the body of the loop, for one line
DiffChangesLine(st, line) ==
    IF StartsWith(line, "diff --git") THEN
        IF Len(Split(line, " ")) < 3
        THEN [st EXCEPT !.changes = [FlushContext(st) EXCEPT !.raised = "IndexError"]]
        ELSE [changes |-> [FlushContext(st) EXCEPT !.code_metrics.files_changed = @ + 1],
              current_file |-> From(Split(line, " ")[3], 2),
              context_lines |-> <<>>]
    ELSE IF StartsWith(line, "+") /\ ~StartsWith(line, "+++") THEN
        LET content == From(line, 1)
            counted == [st.changes EXCEPT !.added_lines = Append(@, content),
                                          !.code_metrics.lines_added = @ + 1]
        IN  [st EXCEPT !.context_lines = Append(@, <<"add", content>>),
                       !.changes = IF Truthy(st.current_file)
                                   THEN analyze_line_content(content, st.current_file, counted)
                                   ELSE counted]
    ELSE IF StartsWith(line, "-") /\ ~StartsWith(line, "---") THEN
        LET content == From(line, 1)
            counted == [st.changes EXCEPT !.removed_lines = Append(@, content),
                                          !.code_metrics.lines_removed = @ + 1]
        IN  [st EXCEPT !.context_lines = Append(@, <<"remove", content>>),
                       !.changes = IF Truthy(st.current_file)
                                   THEN RemovedLine(counted, st.current_file, content)
                                   ELSE counted]
    ELSE [st EXCEPT !.context_lines = Append(@, <<"context", line>>)]

(***************************************************************************)
(* learn_from_github_commits: counters are insertion-ordered dicts, kept   *)
(* as sequences of [key, count].  A repository that cannot be opened is    *)
(* the history Unreadable, for which the function returns {}: the record   *)
(* with valid = FALSE, any key lookup of which raises KeyError.            *)
(***************************************************************************)
Unreadable == <<None>>

HistoryWindow == 100

Patterns0 ==
    [types |-> <<>>, scopes |-> <<>>, descriptions |-> <<>>,
     common_patterns |-> <<>>, valid |-> TRUE]

NoPatterns == [Patterns0 EXCEPT !.valid = FALSE]

\* d[key] += 1 on a defaultdict(int)
Inc(d, key) ==
    IF \E i \in 1..Len(d) : d[i].key = key
    THEN [i \in 1..Len(d) |->
            IF d[i].key = key THEN [d[i] EXCEPT !.count = @ + 1] ELSE d[i]]
    ELSE Append(d, [key |-> key, count |-> 1])

\* scope.rstrip(')')
RECURSIVE RStripParen(_)
RStripParen(s) ==
    IF s # "" /\ Ch(s, Len(s)) = ")" THEN RStripParen(SubSeq(s, 1, Len(s) - 1)) ELSE s

\* the bigram loop over words[i], words[i+1]
RECURSIVE CountBigrams(_, _, _)
CountBigrams(d, words, i) ==
    IF i >= Len(words) THEN d
    ELSE CountBigrams(Inc(d, words[i] \o " " \o words[i + 1]), words, i + 1)

\* the body of the loop, for one commit message
LearnMessage(cp, raw) ==
    LET message == Strip(raw)
        parts == SplitOnce(message, ":")
    IN  IF message = "" \/ Len(parts) # 2 THEN cp
        ELSE LET type_scope == Strip(parts[1])
                 description == Strip(parts[2])
                 ts == SplitOnce(type_scope, "(")
                 counted ==
                     IF Contains(type_scope, "(")
                     THEN [cp EXCEPT !.types = Inc(@, Strip(ts[1])),
                                     !.scopes = Inc(@, Strip(RStripParen(ts[2])))]
                     ELSE [cp EXCEPT !.types = Inc(@, type_scope)]
             IN  [counted EXCEPT
                     !.common_patterns = CountBigrams(@, SplitWS(Lower(description)), 1),
                     !.descriptions = Inc(@, description)]

\* sorted(d.items(), key=lambda x: x[1], reverse=True)[0][0]: the sort is
\* stable, so the first key with the largest count
MostCommon(d) ==
    LET top == Max({d[i].count : i \in 1..Len(d)})
    IN  d[Min({i \in 1..Len(d) : d[i].count = top})].key

(***************************************************************************)
(* generate_commit_type.  RaisedKeyError is the function's outcome when    *)
(* commit_patterns is {}.                                                  *)
(***************************************************************************)
RaisedKeyError == "<KeyError>"

TypeSecurity == "U+1F512 security"

TypeFix == "U+1F41B fix"

TypeFeat == "U+2728 feat"

TypeRefactor == "U+1F504 refactor"

TypePerf == "U+26A1 perf"

TypeDocs == "U+1F4DA docs"

TypeTest == "U+1F9EA test"

TypeStyle == "U+1F485 style"

TypeDeps == "U+1F4E6 deps"

TypeChore == "U+1F527 chore"

\* a variant of generate_commit_type that tests features first
generate_commit_type_features_first(ch, cp) ==
    IF ~cp.valid THEN RaisedKeyError
    ELSE IF ch.features # <<>> THEN TypeFeat
    ELSE IF ch.security # <<>> THEN TypeSecurity
    ELSE IF ch.fixes # <<>> THEN TypeFix
    ELSE IF ch.refactors # <<>> THEN TypeRefactor
    ELSE IF ch.performance # <<>> THEN TypePerf
    ELSE IF ch.docs # <<>> THEN TypeDocs
    ELSE IF ch.tests # <<>> THEN TypeTest
    ELSE IF ch.style # <<>> THEN TypeStyle
    ELSE IF ch.dependencies # <<>> THEN TypeDeps
    ELSE IF ch.scripts # <<>> THEN TypeChore
    ELSE IF cp.types # <<>> THEN MostCommon(cp.types)
    ELSE TypeChore

generate_commit_type(ch, cp) ==
    IF ~cp.valid THEN RaisedKeyError
    ELSE IF ch.security # <<>> THEN TypeSecurity
    ELSE IF ch.fixes # <<>> THEN TypeFix
    ELSE IF ch.features # <<>> THEN TypeFeat
    ELSE IF ch.refactors # <<>> THEN TypeRefactor
    ELSE IF ch.performance # <<>> THEN TypePerf
    ELSE IF ch.docs # <<>> THEN TypeDocs
    ELSE IF ch.tests # <<>> THEN TypeTest
    ELSE IF ch.style # <<>> THEN TypeStyle
    ELSE IF ch.dependencies # <<>> THEN TypeDeps
    ELSE IF ch.scripts # <<>> THEN TypeChore
    ELSE IF cp.types # <<>> THEN MostCommon(cp.types)
    ELSE TypeChore

(***************************************************************************)
(* generate_commit_scope, with os.path.dirname and os.path.commonprefix.   *)
(***************************************************************************)
\* os.path.dirname(p) of posixpath
Dirname(p) ==
    LET slashes == Occurrences(p, "/")
        head == IF slashes = {} THEN "" ELSE SubSeq(p, 1, Max(slashes))
        \* head.rstrip('/')
        kept == {i \in 1..Len(head) : Ch(head, i) # "/"}
    IN  IF kept = {} THEN head ELSE SubSeq(head, 1, Max(kept))

\* os.path.basename(p) of posixpath
Basename(p) ==
    LET slashes == Occurrences(p, "/")
    IN  IF slashes = {} THEN p ELSE From(p, Max(slashes))

\* f.split('/')[0]
TopComponent(f) == Split(f, "/")[1]

\* os.path.commonprefix(m): the longest string every member starts with
CommonPrefix(S) ==
    IF S = {} THEN ""
    ELSE LET s == CHOOSE x \in S : TRUE
             ok == {n \in 0..Len(s) : \A t \in S : StartsWith(t, SubSeq(s, 1, n))}
         IN  SubSeq(s, 1, Max(ok))

\* a variant of generate_commit_scope without the common-prefix step
generate_commit_scope_no_prefix(fc, cp) ==
    LET files == fc.files
        common_dirs == {TopComponent(Dirname(f)) : f \in files}
    IN  IF files = {} THEN None
        ELSE IF Cardinality(common_dirs) = 1 THEN CHOOSE d \in common_dirs : TRUE
        ELSE IF ~cp.valid THEN RaisedKeyError
        ELSE IF cp.scopes # <<>> THEN MostCommon(cp.scopes)
        ELSE None

generate_commit_scope(fc, cp) ==
    LET files == fc.files
        common_dirs == {TopComponent(Dirname(f)) : f \in files}
        prefix == CommonPrefix({TopComponent(f) : f \in files})
    IN  IF files = {} THEN None
        ELSE IF Cardinality(common_dirs) = 1 THEN CHOOSE d \in common_dirs : TRUE
        ELSE IF prefix # "" THEN prefix
        ELSE IF ~cp.valid THEN RaisedKeyError
        ELSE IF cp.scopes # <<>> THEN MostCommon(cp.scopes)
        ELSE None

(***************************************************************************)
(* generate_detailed_commit_description.                                   *)
(***************************************************************************)
\* the printable ASCII characters in code-point order: 32..95 and 97..126
\* (96, the backquote, cannot be written in a module and is in no input)
AsciiLow ==
    " !\"#$%&'()*+,-./0123456789:;<=>?@ABCDEFGHIJKLMNOPQRSTUVWXYZ[\\]^_"

AsciiHigh == "abcdefghijklmnopqrstuvwxyz{|}~"

\* ord(c)
Ord(c) ==
    IF Contains(AsciiLow, c) THEN Min(Occurrences(AsciiLow, c)) + 31
    ELSE Min(Occurrences(AsciiHigh, c)) + 96

\* a < b for str
RECURSIVE StrLess(_, _)
StrLess(a, b) ==
    IF b = "" THEN FALSE
    ELSE IF a = "" THEN TRUE
    ELSE IF Ch(a, 1) # Ch(b, 1) THEN Ord(Ch(a, 1)) < Ord(Ch(b, 1))
    ELSE StrLess(From(a, 1), From(b, 1))

\* sorted(S) for a set of str
RECURSIVE Sorted(_)
Sorted(S) ==
    IF S = {} THEN <<>>
    ELSE LET m == CHOOSE x \in S : \A y \in S \ {x} : StrLess(x, y)
         IN  <<m>> \o Sorted(S \ {m})

\* str(n) for n >= 0
RECURSIVE IntToStr(_)
IntToStr(n) ==
    IF n < 10 THEN Ch("0123456789", n + 1)
    ELSE IntToStr(n \div 10) \o Ch("0123456789", (n % 10) + 1)

Range(s) == {s[i] : i \in 1..Len(s)}

\* file_changes_map: basename -> the notes of every file with that basename,
\* in the order of semantic_changes
RECURSIVE FileChangesMap(_, _)
FileChangesMap(sc, acc) ==
    IF sc = <<>> THEN acc
    ELSE LET name == Basename(Head(sc).file)
             merged ==
                 IF \E i \in 1..Len(acc) : acc[i].file = name
                 THEN [i \in 1..Len(acc) |->
                         IF acc[i].file = name
                         THEN [acc[i] EXCEPT !.notes = @ \o Head(sc).notes]
                         ELSE acc[i]]
                 ELSE Append(acc, [file |-> name, notes |-> Head(sc).notes])
         IN  FileChangesMap(Tail(sc), merged)

\* change.split()[0]
Action(change) == SplitWS(change)[1]

\* grouped_changes: action -> its changes, both in the order of unique_changes
RECURSIVE GroupByAction(_, _)
GroupByAction(unique_changes, acc) ==
    IF unique_changes = <<>> THEN acc
    ELSE LET c == Head(unique_changes)
             a == Action(c)
             added ==
                 IF \E i \in 1..Len(acc) : acc[i].action = a
                 THEN [i \in 1..Len(acc) |->
                         IF acc[i].action = a
                         THEN [acc[i] EXCEPT !.changes = Append(@, c)]
                         ELSE acc[i]]
                 ELSE Append(acc, [action |-> a, changes |-> <<c>>])
         IN  GroupByAction(Tail(unique_changes), added)

MetricsThreshold == 50

\* the part of the description made of one action's changes
GroupPart(g) ==
    LET n == Len(g.changes)
        rest == [i \in 1..n |-> From(g.changes[i], Len(g.action))]
        common_prefix == CommonPrefix(Range(rest))
        listed == g.action \o " " \o Join(SubSeq(rest, 1, Min({2, n})), ", ")
    IN  IF n = 1 THEN g.changes[1]
        ELSE IF common_prefix # ""
        THEN g.action \o common_prefix \o " (" \o IntToStr(n) \o " changes)"
        ELSE IF n > 2 THEN listed \o " and " \o IntToStr(n - 2) \o " more"
        ELSE listed

\* the entry of one file name: "name: part; part"
FilePart(e) ==
    LET groups == GroupByAction(Sorted(Range(e.notes)), <<>>)
        file_parts == [i \in 1..Len(groups) |-> GroupPart(groups[i])]
    IN  e.file \o ": " \o Join(file_parts, "; ")

Plural(n) == IF n > 1 THEN "s" ELSE ""

\* the file-operation entry; renamed is renamed_files in the order the set
\* is iterated in
FileOps(fc, renamed) ==
    LET added_count == Cardinality(fc.added_files)
        deleted_count == Cardinality(fc.deleted_files)
        names == [i \in 1..Len(renamed) |->
                    Basename(renamed[i][1]) \o " U+2192 " \o Basename(renamed[i][2])]
    IN  (IF added_count > 0
         THEN <<"add " \o IntToStr(added_count) \o " file" \o Plural(added_count)>>
         ELSE <<>>)
        \o (IF deleted_count > 0
            THEN <<"remove " \o IntToStr(deleted_count) \o " file" \o Plural(deleted_count)>>
            ELSE <<>>)
        \o (IF renamed # <<>> THEN <<"rename " \o Join(names, ", ")>> ELSE <<>>)

\* "(A+/B- lines)"
MetricsText(metrics) ==
    "(" \o IntToStr(metrics.lines_added) \o "+/"
        \o IntToStr(metrics.lines_removed) \o "- lines)"

generate_detailed_commit_description(ch, fc, renamed) ==
    LET map == FileChangesMap(ch.semantic_changes, <<>>)
        per_file == [i \in 1..Len(map) |-> FilePart(map[i])]
        file_ops == FileOps(fc, renamed)
        metrics == ch.code_metrics
        desc_parts ==
            per_file
            \o (IF file_ops # <<>> THEN <<"files: " \o Join(file_ops, "; ")>> ELSE <<>>)
            \o (IF metrics.lines_added + metrics.lines_removed > MetricsThreshold
                THEN <<MetricsText(metrics)>> ELSE <<>>)
    IN  IF Join(desc_parts, "; ") = "" THEN "update code" ELSE Join(desc_parts, "; ")

\* the orders a set may be iterated in
Orders(S) ==
    {s \in [1..Cardinality(S) -> S] : \A i, j \in 1..Cardinality(S) : i # j => s[i] # s[j]}

\* os.path.splitext(p)[1].lower()
Ext(p) ==
    LET name == Basename(p)
        dots == Occurrences(name, ".")
        \* a leading run of dots is part of the root, not an extension
        lead == {k \in 1..Len(name) : \A j \in 1..k : Ch(name, j) = "."}
    IN  IF dots = {} \/ Max(dots) \in lead THEN ""
        ELSE Lower(From(name, Max(dots) - 1))

\* the extensions analyze_code_structure reads the working tree for; for any
\* other, and for .md, .json, .yaml, .yml, it returns the empty structure
ParsedExts == {".py", ".js", ".jsx", ".ts", ".tsx"}

(***************************************************************************)
(* main's message: analyze_code_with_ai, analyze_code_with_rules,          *)
(* generate_description, generate_body, generate_commit_message.          *)
(***************************************************************************)
\* lit occurs in s at position p
At(s, p, lit) == p + Len(lit) - 1 <= Len(s) /\ SubSeq(s, p, p + Len(lit) - 1) = lit

\* the end of the longest run of \s characters that starts at p; p - 1 when
\* s[p] is none
SpaceRunEnd(s, p) ==
    Min({e \in p..(Len(s) + 1) : e = Len(s) + 1 \/ ~IsSpace(Ch(s, e))}) - 1

\* the same for \w
WordRunEnd(s, p) ==
    Min({e \in p..(Len(s) + 1) : e = Len(s) + 1 \/ ~IsWord(Ch(s, e))}) - 1

\* where a match of r'def\s+\w+\s*\(' that starts at p ends; 0 when none does
DefMatchEnd(s, p) ==
    LET e1 == SpaceRunEnd(s, p + 3)
        e2 == WordRunEnd(s, e1 + 1)
        e3 == SpaceRunEnd(s, e2 + 1)
    IN  IF At(s, p, "def") /\ e1 >= p + 3 /\ e2 >= e1 + 1 /\ At(s, e3 + 1, "(")
        THEN e3 + 1 ELSE 0

\* where a match of r'class\s+\w+' that starts at p ends; 0 when none does
ClassMatchEnd(s, p) ==
    LET e1 == SpaceRunEnd(s, p + 5)
        e2 == WordRunEnd(s, e1 + 1)
    IN  IF At(s, p, "class") /\ e1 >= p + 5 /\ e2 >= e1 + 1 THEN e2 ELSE 0

\* where a match of the alternation of the literals alts (a sequence, tried
\* in order) that starts at p ends; 0 when none does
LiteralMatchEnd(s, p, alts) ==
    LET hits == {a \in 1..Len(alts) : At(s, p, alts[a])}
    IN  IF hits = {} THEN 0 ELSE p + Len(alts[Min(hits)]) - 1

\* len(re.findall(...)): the matches taken left to right, none starting
\* inside the one before; starts ascending, ends[p] the end of a match at p
RECURSIVE CountMatches(_, _, _, _)
CountMatches(starts, k, last_end, ends) ==
    IF k > Len(starts) THEN 0
    ELSE IF starts[k] <= last_end THEN CountMatches(starts, k + 1, last_end, ends)
    ELSE 1 + CountMatches(starts, k + 1, ends[starts[k]], ends)

DefStarts(s) == {p \in 1..Len(s) : DefMatchEnd(s, p) > 0}

ClassStarts(s) == {p \in 1..Len(s) : ClassMatchEnd(s, p) > 0}

TestAlts == <<"test_", "assert", "pytest", "unittest">>

TestStarts(s) == {p \in 1..Len(s) : LiteralMatchEnd(s, p, TestAlts) > 0}

\* the bound of new_functions + new_classes above which the type is feat
MultipleComponents == 2

analyze_code_with_rules(code) ==
    LET DefEnd == [p \in DefStarts(code) |-> DefMatchEnd(code, p)]
        ClassEnd == [p \in ClassStarts(code) |-> ClassMatchEnd(code, p)]
        TestEnd == [p \in TestStarts(code) |-> LiteralMatchEnd(code, p, TestAlts)]
        new_functions == CountMatches(Ascending(DefStarts(code)), 1, 0, DefEnd)
        new_classes == CountMatches(Ascending(ClassStarts(code)), 1, 0, ClassEnd)
        test_lines == CountMatches(Ascending(TestStarts(code)), 1, 0, TestEnd)
        total_lines == Len(Split(code, "\n"))
        t1 == IF DefStarts(code) # {} \/ ClassStarts(code) # {}
              THEN IF new_functions + new_classes > MultipleComponents
                   THEN "feat" ELSE "refactor"
              ELSE "chore"
        t2 == IF AnyIgnoreCase(code, {"fix", "bug", "error", "exception"}) THEN "fix" ELSE t1
        t3 == IF \E k \in {"\"\"\"", "docstring", "#"} : Contains(code, k) THEN "docs" ELSE t2
        t4 == IF AnyIgnoreCase(code, {"style", "format", "indent"}) THEN "style" ELSE t3
        t5 == IF AnyIgnoreCase(code, {"refactor", "cleanup", "optimize", "improve", "enhance"})
              THEN "refactor" ELSE t4
        \* test_lines / total_lines > 0.5
        t6 == IF TestStarts(code) # {} /\ 2 * test_lines > total_lines THEN "test" ELSE t5
        t7 == IF ConfigRe(code) THEN "chore" ELSE t6
        t8 == IF AnyIgnoreCase(code, {"requirements.txt", "package.json", "setup.py", "pipfile"})
              THEN "chore" ELSE t7
    IN  IF AnyIgnoreCase(code, {"build", "ci", "github", "gitlab", "travis", "circleci", "docker"})
        THEN "ci" ELSE t8

\* what code_analyzer(code) may give: a label of the loaded classifier, or
\* an exception (the model was not loaded, or the call failed)
AiOutcomes == {"LABEL_0", "LABEL_1", "unavailable"}

analyze_code_with_ai(code, outcome) ==
    IF outcome = "unavailable" THEN analyze_code_with_rules(code) ELSE outcome

\* max(set(dirs), key=dirs.count): a directory no other occurs more often than
MostCommonDirs(files) ==
    LET Count(d) == Cardinality({f \in files : Dirname(f) = d})
    IN  {Dirname(f) : f \in files} \cap
        {d \in {Dirname(f) : f \in files} : \A f \in files : Count(Dirname(f)) <= Count(d)}

\* generate_description; added, deleted, renamed are the three sets in the
\* order each is iterated in
generate_description(ch, added, deleted, renamed) ==
    LET pairs == [k \in 1..Len(renamed) |-> renamed[k][1] \o " U+2192 " \o renamed[k][2]]
        Part(cat, text) == IF ch[cat] # <<>> THEN <<text>> ELSE <<>>
    IN  Join((IF added # <<>> THEN <<"add " \o Join(added, ", ")>> ELSE <<>>)
             \o (IF deleted # <<>> THEN <<"remove " \o Join(deleted, ", ")>> ELSE <<>>)
             \o (IF renamed # <<>> THEN <<"rename " \o Join(pairs, ", ")>> ELSE <<>>)
             \o Part("security", "enhance security")
             \o Part("features", "add new features")
             \o Part("fixes", "fix issues")
             \o Part("refactors", "refactor code")
             \o Part("performance", "improve performance")
             \o Part("tests", "update tests")
             \o Part("docs", "update documentation")
             \o Part("config", "update configuration"), "; ")

\* the lines of generate_body for one file of semantic_changes
BodyOfFile(e) ==
    LET notes == Sorted(Range(e.notes))
    IN  <<"- " \o e.file \o ":">> \o [k \in 1..Len(notes) |-> "  - " \o notes[k]]

RECURSIVE Flatten(_)
Flatten(seqs) == IF seqs = <<>> THEN <<>> ELSE Head(seqs) \o Flatten(Tail(seqs))

generate_body(ch) ==
    LET sc == ch.semantic_changes
        m == ch.code_metrics
        Counter(n, label) == IF n > 0 THEN <<label \o IntToStr(n)>> ELSE <<>>
    IN  Join((IF sc # <<>>
              THEN <<"Detailed changes:">> \o Flatten([k \in 1..Len(sc) |-> BodyOfFile(sc[k])])
              ELSE <<>>)
             \o (IF m.lines_added + m.lines_removed > 0
                 THEN <<"\nMetrics:",
                        "- Files changed: " \o IntToStr(m.files_changed),
                        "- Lines added: " \o IntToStr(m.lines_added),
                        "- Lines removed: " \o IntToStr(m.lines_removed)>>
                      \o Counter(m.functions_added, "- Functions added: ")
                      \o Counter(m.functions_modified, "- Functions modified: ")
                      \o Counter(m.classes_added, "- Classes added: ")
                      \o Counter(m.classes_modified, "- Classes modified: ")
                 ELSE <<>>), "\n")

\* generate_commit_message; outcome is what the classifier gave, scope the
\* directory max() picked, added, deleted, renamed the iteration orders
generate_commit_message(ch, outcome, scope, added, deleted, renamed) ==
    LET commit_type_ai == analyze_code_with_ai(Join(ch.added_lines, "\n"), outcome)
        description == generate_description(ch, added, deleted, renamed)
        body == generate_body(ch)
    IN  commit_type_ai
        \o (IF Truthy(scope) THEN "(" \o scope \o ")" ELSE "")
        \o ": " \o description
        \o (IF body # "" THEN "\n\n" \o body ELSE "")

(***************************************************************************)
(* The state machine.  analyze_changes: start, learn, file_changes,        *)
(* fc_loop, diff_changes, dc_loop, structure, type, scope, desc, report,   *)
(* message, done.  main: start, file_changes, fc_loop, diff_changes,       *)
(* dc_loop, generate, prompt, commit, done.  An exception anywhere in the  *)
(* try block of either ends it: analyze_changes returns None, main prints  *)
(* the error and returns.                                                  *)
(***************************************************************************)
Sentinel == "No changes to commit"

\* a variant of IsEmptyDiff that lets the empty diff through
NeverEmptyDiff(d) == FALSE

\* `not diff`
IsEmptyDiff(d) == d = ""

\* the except clause of the entry point that is running
Raise ==
    /\ pc' = "done"
    /\ result' = None

AnalyzeChangesEmpty ==
    /\ pc = "start" /\ entry = "analyze_changes"
    /\ IsEmptyDiff(diff)
    /\ result' = Sentinel
    /\ pc' = "done"
    /\ UNCHANGED <<entry, diff, history, fs, answer, split_lines, line_no,
                   commit_patterns, file_changes, diff_pass, code_changes,
                   commit_type, commit_scope, commit_desc, commit_message,
                   calls, committed>>

LearnBegin ==
    /\ pc = "start" /\ entry = "analyze_changes"
    /\ ~IsEmptyDiff(diff)
    /\ calls' = Append(calls, "learn_from_github_commits")
    /\ IF history = Unreadable
       THEN commit_patterns' = NoPatterns /\ pc' = "file_changes"
       ELSE commit_patterns' = Patterns0 /\ pc' = "learn"
    /\ line_no' = 1
    /\ UNCHANGED <<entry, diff, history, fs, answer, split_lines,
                   file_changes, diff_pass, code_changes, commit_type,
                   commit_scope, commit_desc, result, commit_message,
                   committed>>

\* a variant of the window that takes the whole history
ConsideredAll(h) == Len(h)

\* list(repo.iter_commits())[:100]
Considered(h) == Min({Len(h), HistoryWindow})

LearnStep ==
    /\ pc = "learn"
    /\ line_no <= Considered(history)
    /\ commit_patterns' = LearnMessage(commit_patterns, history[line_no])
    /\ line_no' = line_no + 1
    /\ UNCHANGED <<pc, entry, diff, history, fs, answer, split_lines,
                   file_changes, diff_pass, code_changes, commit_type,
                   commit_scope, commit_desc, result, commit_message, calls,
                   committed>>

LearnReturn ==
    /\ pc = "learn"
    /\ line_no > Considered(history)
    /\ pc' = "file_changes"
    /\ UNCHANGED <<entry, diff, history, fs, answer, split_lines, line_no,
                   commit_patterns, file_changes, diff_pass, code_changes,
                   commit_type, commit_scope, commit_desc, result,
                   commit_message, calls, committed>>

FileChangesBegin ==
    /\ pc = "file_changes"
    /\ calls' = Append(calls, "analyze_file_changes")
    /\ split_lines' = Split(diff, "\n")
    /\ file_changes' = FileChanges0
    /\ line_no' = 1
    /\ pc' = "fc_loop"
    /\ UNCHANGED <<entry, diff, history, fs, answer, commit_patterns,
                   diff_pass, code_changes, commit_type, commit_scope,
                   commit_desc, result, commit_message, committed>>

FileChangesStep ==
    /\ pc = "fc_loop"
    /\ line_no <= Len(split_lines)
    /\ LET ch == FileChangesLine(file_changes, split_lines[line_no], split_lines)
       IN  /\ file_changes' = ch
           /\ IF ch.raised # "" THEN Raise /\ line_no' = line_no
              ELSE line_no' = line_no + 1 /\ UNCHANGED <<pc, result>>
    /\ UNCHANGED <<entry, diff, history, fs, answer, split_lines,
                   commit_patterns, diff_pass, code_changes, commit_type,
                   commit_scope, commit_desc, commit_message, calls,
                   committed>>

FileChangesReturn ==
    /\ pc = "fc_loop"
    /\ line_no > Len(split_lines)
    /\ file_changes' = [file_changes EXCEPT !.modified_files = ModifiedFiles(file_changes)]
    /\ pc' = "diff_changes"
    /\ UNCHANGED <<entry, diff, history, fs, answer, split_lines, line_no,
                   commit_patterns, diff_pass, code_changes, commit_type,
                   commit_scope, commit_desc, result, commit_message, calls,
                   committed>>

DiffChangesBegin ==
    /\ pc = "diff_changes"
    /\ calls' = Append(calls, "analyze_diff_changes")
    /\ split_lines' = Split(diff, "\n")
    /\ diff_pass' = DiffState0
    /\ line_no' = 1
    /\ pc' = "dc_loop"
    /\ UNCHANGED <<entry, diff, history, fs, answer, commit_patterns,
                   file_changes, code_changes, commit_type, commit_scope,
                   commit_desc, result, commit_message, committed>>

DiffChangesStep ==
    /\ pc = "dc_loop"
    /\ line_no <= Len(split_lines)
    /\ LET st == DiffChangesLine(diff_pass, split_lines[line_no])
       IN  /\ diff_pass' = st
           /\ IF st.changes.raised # "" THEN Raise /\ line_no' = line_no
              ELSE line_no' = line_no + 1 /\ UNCHANGED <<pc, result>>
    /\ UNCHANGED <<entry, diff, history, fs, answer, split_lines,
                   commit_patterns, file_changes, code_changes, commit_type,
                   commit_scope, commit_desc, commit_message, calls,
                   committed>>

DiffChangesReturn ==
    /\ pc = "dc_loop"
    /\ line_no > Len(split_lines)
    /\ code_changes' = FlushContext(diff_pass)
    /\ pc' = IF entry = "analyze_changes" THEN "structure" ELSE "generate"
    /\ UNCHANGED <<entry, diff, history, fs, answer, split_lines, line_no,
                   commit_patterns, file_changes, diff_pass, commit_type,
                   commit_scope, commit_desc, result, commit_message, calls,
                   committed>>

\* the loop over modified_files: analyze_code_structure reads the working
\* tree; a .py or .js file it cannot read or parse gives {}, whose
\* ['functions'] raises KeyError
Structure ==
    /\ pc = "structure"
    /\ LET parsed == {f \in file_changes.modified_files : Ext(f) \in ParsedExts}
       IN  IF parsed # {} /\ fs = "unreadable"
           THEN /\ Raise
                /\ calls' = Append(calls, "analyze_code_structure")
                /\ UNCHANGED code_changes
           ELSE /\ pc' = "type"
                /\ calls' = IF parsed = {} THEN calls
                            ELSE Append(calls, "analyze_code_structure")
                /\ \E order \in Orders(parsed) :
                     code_changes' =
                        IF fs = "functions"
                        THEN [code_changes EXCEPT !.components = @ \o order]
                        ELSE code_changes
                /\ UNCHANGED result
    /\ UNCHANGED <<entry, diff, history, fs, answer, split_lines, line_no,
                   commit_patterns, file_changes, diff_pass, commit_type,
                   commit_scope, commit_desc, commit_message, committed>>

GenerateType ==
    /\ pc = "type"
    /\ calls' = Append(calls, "generate_commit_type")
    /\ LET t == generate_commit_type(code_changes, commit_patterns)
       IN  IF t = RaisedKeyError THEN Raise /\ UNCHANGED commit_type
           ELSE commit_type' = t /\ pc' = "scope" /\ UNCHANGED result
    /\ UNCHANGED <<entry, diff, history, fs, answer, split_lines, line_no,
                   commit_patterns, file_changes, diff_pass, code_changes,
                   commit_scope, commit_desc, commit_message, committed>>

GenerateScope ==
    /\ pc = "scope"
    /\ calls' = Append(calls, "generate_commit_scope")
    /\ LET sc == generate_commit_scope(file_changes, commit_patterns)
       IN  IF sc = RaisedKeyError THEN Raise /\ UNCHANGED commit_scope
           ELSE commit_scope' = sc /\ pc' = "desc" /\ UNCHANGED result
    /\ UNCHANGED <<entry, diff, history, fs, answer, split_lines, line_no,
                   commit_patterns, file_changes, diff_pass, code_changes,
                   commit_type, commit_desc, commit_message, committed>>

GenerateDescription ==
    /\ pc = "desc"
    /\ calls' = Append(calls, "generate_detailed_commit_description")
    /\ \E renamed \in Orders(file_changes.renamed_files) :
         commit_desc' =
            generate_detailed_commit_description(code_changes, file_changes, renamed)
    /\ pc' = "report"
    /\ UNCHANGED <<entry, diff, history, fs, answer, split_lines, line_no,
                   commit_patterns, file_changes, diff_pass, code_changes,
                   commit_type, commit_scope, result, commit_message,
                   committed>>

\* the report printed before the message is built: ', '.join(sorted(...))
\* of added_files and of deleted_files raises TypeError when None is a
\* member (a 'new file mode' line before any 'diff --git' line)
Report ==
    /\ pc = "report"
    /\ IF None \in (file_changes.added_files \cup file_changes.deleted_files)
       THEN Raise
       ELSE pc' = "message" /\ UNCHANGED result
    /\ UNCHANGED <<entry, diff, history, fs, answer, split_lines, line_no,
                   commit_patterns, file_changes, diff_pass, code_changes,
                   commit_type, commit_scope, commit_desc, commit_message,
                   calls, committed>>

\* message = type + "(scope)" + ": " + description + " (A+/B- lines)"
ComposeMessage(type, scope, desc, metrics) ==
    type
    \o (IF Truthy(scope) THEN "(" \o scope \o ")" ELSE "")
    \o ": " \o desc
    \o (IF metrics.lines_added + metrics.lines_removed > 0
        THEN " " \o MetricsText(metrics) ELSE "")

Message ==
    /\ pc = "message"
    /\ result' = ComposeMessage(commit_type, commit_scope, commit_desc,
                                code_changes.code_metrics)
    /\ pc' = "done"
    /\ UNCHANGED <<entry, diff, history, fs, answer, split_lines, line_no,
                   commit_patterns, file_changes, diff_pass, code_changes,
                   commit_type, commit_scope, commit_desc, commit_message,
                   calls, committed>>

\* main: get_git_diff() gave the diff
MainGetDiff ==
    /\ pc = "start" /\ entry = "main"
    /\ calls' = Append(calls, "get_git_diff")
    /\ pc' = IF IsEmptyDiff(diff) THEN "done" ELSE "file_changes"
    /\ UNCHANGED <<entry, diff, history, fs, answer, split_lines, line_no,
                   commit_patterns, file_changes, diff_pass, code_changes,
                   commit_type, commit_scope, commit_desc, result,
                   commit_message, committed>>

\* main: get_git_diff() raised (no repository, git failed)
MainGetDiffFails ==
    /\ pc = "start" /\ entry = "main"
    /\ calls' = Append(calls, "get_git_diff")
    /\ Raise
    /\ UNCHANGED <<entry, diff, history, fs, answer, split_lines, line_no,
                   commit_patterns, file_changes, diff_pass, code_changes,
                   commit_type, commit_scope, commit_desc, commit_message,
                   committed>>

MainGenerate ==
    /\ pc = "generate"
    /\ calls' = Append(calls, "generate_commit_message")
    /\ IF None \in (file_changes.added_files \cup file_changes.deleted_files)
       THEN Raise /\ UNCHANGED commit_message
       ELSE /\ \E outcome \in AiOutcomes :
               \E scope \in (IF file_changes.modified_files = {} THEN {None}
                             ELSE MostCommonDirs(file_changes.modified_files)) :
               \E added \in Orders(file_changes.added_files) :
               \E deleted \in Orders(file_changes.deleted_files) :
               \E renamed \in Orders(file_changes.renamed_files) :
                 commit_message' =
                    generate_commit_message(code_changes, outcome, scope,
                                            added, deleted, renamed)
            /\ pc' = "prompt"
            /\ UNCHANGED result
    /\ UNCHANGED <<entry, diff, history, fs, answer, split_lines, line_no,
                   commit_patterns, file_changes, diff_pass, code_changes,
                   commit_type, commit_scope, commit_desc, committed>>

\* a variant of the confirmation that commits whatever the answer is
MainPromptIgnored ==
    /\ pc = "prompt"
    /\ calls' = Append(calls, "Prompt.ask")
    /\ pc' = "commit"
    /\ UNCHANGED <<entry, diff, history, fs, answer, split_lines, line_no,
                   commit_patterns, file_changes, diff_pass, code_changes,
                   commit_type, commit_scope, commit_desc, result,
                   commit_message, committed>>

\* Prompt.ask(..., choices=["y", "n"])
MainPrompt ==
    /\ pc = "prompt"
    /\ calls' = Append(calls, "Prompt.ask")
    /\ pc' = IF Lower(answer) = "y" THEN "commit" ELSE "done"
    /\ UNCHANGED <<entry, diff, history, fs, answer, split_lines, line_no,
                   commit_patterns, file_changes, diff_pass, code_changes,
                   commit_type, commit_scope, commit_desc, result,
                   commit_message, committed>>

MainCommit ==
    /\ pc = "commit"
    /\ calls' = Append(calls, "repo.git.commit")
    /\ committed' = Append(committed, commit_message)
    /\ pc' = "done"
    /\ UNCHANGED <<entry, diff, history, fs, answer, split_lines, line_no,
                   commit_patterns, file_changes, diff_pass, code_changes,
                   commit_type, commit_scope, commit_desc, result,
                   commit_message>>

Next ==
    \/ AnalyzeChangesEmpty
    \/ LearnBegin
    \/ LearnStep
    \/ LearnReturn
    \/ FileChangesBegin
    \/ FileChangesStep
    \/ FileChangesReturn
    \/ DiffChangesBegin
    \/ DiffChangesStep
    \/ DiffChangesReturn
    \/ Structure
    \/ GenerateType
    \/ GenerateScope
    \/ GenerateDescription
    \/ Report
    \/ Message
    \/ MainGetDiff
    \/ MainGetDiffFails
    \/ MainGenerate
    \/ MainPrompt
    \/ MainCommit

(***************************************************************************)
(* The inputs.  A diff is a header and up to MaxBody lines of BodyLines,   *)
(* or up to MaxSections file sections of Sections, or a header and a run   *)
(* of changed lines around the metrics threshold, or empty.                *)
(***************************************************************************)
MaxBody == 2

MaxSections == 2

Header == "diff --git a/src/auth.py b/src/auth.py"

BodyLines ==
    {"+password = \"x\"",
     "+def login(password):",
     "+class TokenStore:",
     "+x = 1",
     "-def old_login(user):",
     " def helper(x):",
     " import os",
     " # test setup",
     "@@ -1,3 +1,4 @@"}

Sections ==
    {"diff --git a/old.py b/lib/new.py\nsimilarity index 90%\nrename from old.py\nrename to lib/new.py\n+x = 1",
     "diff --git a/src/util.py b/src/tools.py\nsimilarity index 100%\nrename from src/util.py\nrename to src/tools.py",
     "diff --git a/my file.py b/my file2.py\nrename from my file.py\nrename to my file2.py",
     "diff --git a/src/new.py b/src/new.py\nnew file mode 100644\n+x = 1",
     "diff --git a/docs/old.md b/docs/old.md\ndeleted file mode 100644\n-x = 1",
     "diff --git a/srv/run.py b/srv/run.py\n+x = 1",
     "diff --git a/p.py b/q.py\nrename from p.py",
     "diff --git a/x",
     "new file mode 100644"}

SeqsUpTo(S, n) == UNION {[1..k -> S] : k \in 0..n}

\* n times the line
Repeat(line, n) == [k \in 1..n |-> line]

BodyDiffs == {Join(<<Header>> \o b, "\n") : b \in SeqsUpTo(BodyLines, MaxBody)}

SectionDiffs == {Join(s, "\n") : s \in SeqsUpTo(Sections, MaxSections) \ {<<>>}}

PaddedDiffs ==
    {Join(<<Header>> \o Repeat("+x = 1", a) \o Repeat("-y = 2", r), "\n") :
        <<a, r>> \in {<<MetricsThreshold, 0>>, <<MetricsThreshold + 1, 0>>,
                      <<MetricsThreshold - 20, 21>>}}

Diffs == {""} \cup BodyDiffs \cup SectionDiffs \cup PaddedDiffs

Histories ==
    {<<>>,
     <<"feat(api): add parser", "fix(core): crash on empty diff", "fix(core): handle error">>,
     Unreadable}

\* the history and the working tree analyze_changes is run against
Environments ==
    {<<h, "functions">> : h \in Histories} \cup {<<<<>>, "unreadable">>}

Init ==
    /\ pc = "start"
    /\ diff \in Diffs
    /\ \/ entry = "analyze_changes" /\ answer = "n"
          /\ \E env \in Environments : history = env[1] /\ fs = env[2]
       \/ entry = "main" /\ history = <<>> /\ fs = "functions" /\ answer \in {"y", "n"}
    /\ split_lines = <<>>
    /\ line_no = 1
    /\ commit_patterns = Patterns0
    /\ file_changes = FileChanges0
    /\ diff_pass = DiffState0
    /\ code_changes = CodeChanges0
    /\ commit_type = None
    /\ commit_scope = None
    /\ commit_desc = None
    /\ result = None
    /\ commit_message = None
    /\ calls = <<>>
    /\ committed = <<>>

Spec == Init /\ [][Next]_vars

(***************************************************************************)
(* generate_commit_type on its own: the pipeline never fills style or      *)
(* scripts, so the categories that are non-empty are drawn freely, and the *)
(* patterns are those learnt from a history.                               *)
(***************************************************************************)
TypeCategories ==
    {"security", "fixes", "features", "refactors", "performance", "docs",
     "tests", "style", "dependencies", "scripts"}

\* analyze_diff_changes' record with the categories of S holding one file
WithCategories(S) ==
    [k \in DOMAIN CodeChanges0 |->
        IF k \in S THEN <<"src/auth.py">> ELSE CodeChanges0[k]]

\* learn_from_github_commits on the first n messages of h
RECURSIVE Learned(_, _)
Learned(h, n) ==
    IF h = Unreadable THEN NoPatterns
    ELSE IF n = 0 THEN Patterns0
    ELSE LearnMessage(Learned(h, n - 1), h[n])

InitType ==
    /\ pc = "type"
    /\ entry = "analyze_changes"
    /\ diff = Header
    /\ history \in Histories
    /\ fs = "functions"
    /\ answer = "n"
    /\ split_lines = <<>>
    /\ line_no = 1
    /\ commit_patterns = Learned(history, Considered(history))
    /\ file_changes = FileChanges0
    /\ diff_pass = DiffState0
    /\ code_changes \in {WithCategories(S) : S \in SUBSET TypeCategories}
    /\ commit_type = None
    /\ commit_scope = None
    /\ commit_desc = None
    /\ result = None
    /\ commit_message = None
    /\ calls = <<>>
    /\ committed = <<>>

NextType == GenerateType

SpecType == InitType /\ [][NextType]_vars

(***************************************************************************)
(* analyze_line_content on its own: the contents of up to MaxLines added   *)
(* lines of one file are classified one after the other, each on the       *)
(* record the one before left.                                             *)
(***************************************************************************)
MaxLines == 2

\* contents of added lines; most match several of the rules
LinePool ==
    {"# fix the crash",
     "optimize and cleanup",
     "def login(password):",
     "def test_login():",
     "class TestAuth:",
     "import os",
     "from os import path",
     "password = \"x\"",
     "config.token = 1",
     "fix token error",
     "update cache",
     "x = 1"}

\* analyze_line_content(content, current_file, changes), line 295
ClassifyLine ==
    /\ pc = "classify"
    /\ line_no <= Len(split_lines)
    /\ diff_pass' =
          [diff_pass EXCEPT !.changes =
              analyze_line_content(split_lines[line_no], diff_pass.current_file, @)]
    /\ line_no' = line_no + 1
    /\ UNCHANGED <<pc, entry, diff, history, fs, answer, split_lines,
                   commit_patterns, file_changes, code_changes, commit_type,
                   commit_scope, commit_desc, result, commit_message, calls,
                   committed>>

InitLine ==
    /\ pc = "classify"
    /\ entry = "analyze_changes"
    /\ diff = Header
    /\ history = <<>>
    /\ fs = "functions"
    /\ answer = "n"
    /\ split_lines \in SeqsUpTo(LinePool, MaxLines)
    /\ line_no = 1
    /\ commit_patterns = Patterns0
    /\ file_changes = FileChanges0
    /\ diff_pass = [DiffState0 EXCEPT !.current_file = "src/auth.py"]
    /\ code_changes = CodeChanges0
    /\ commit_type = None
    /\ commit_scope = None
    /\ commit_desc = None
    /\ result = None
    /\ commit_message = None
    /\ calls = <<>>
    /\ committed = <<>>

NextLine == ClassifyLine

SpecLine == InitLine /\ [][NextLine]_vars

(***************************************************************************)
(* generate_detailed_commit_description on its own: the notes of one file, *)
(* up to MaxNotes of the notes the two analyzers write, repetitions        *)
(* included.                                                               *)
(***************************************************************************)
MaxNotes == 3

\* notes written by analyze_line_content and analyze_context
NotePool ==
    {"add function login",
     "add class TokenStore",
     "add helper function",
     "add documentation",
     "add dependencies",
     "update documentation",
     "update configuration",
     "enhance security",
     "fix issues"}

InitDesc ==
    /\ pc = "desc"
    /\ entry = "analyze_changes"
    /\ diff = Header
    /\ history = <<>>
    /\ fs = "functions"
    /\ answer = "n"
    /\ split_lines = <<>>
    /\ line_no = 1
    /\ commit_patterns = Patterns0
    /\ file_changes = [FileChanges0 EXCEPT !.files = {"src/auth.py"},
                                           !.modified_files = {"src/auth.py"}]
    /\ diff_pass = DiffState0
    /\ \E notes \in SeqsUpTo(NotePool, MaxNotes) \ {<<>>} :
          code_changes =
             [CodeChanges0 EXCEPT
                 !.semantic_changes = <<[file |-> "src/auth.py", notes |-> notes]>>]
    /\ commit_type = TypeChore
    /\ commit_scope = "src"
    /\ commit_desc = None
    /\ result = None
    /\ commit_message = None
    /\ calls = <<>>
    /\ committed = <<>>

NextDesc == GenerateDescription

SpecDesc == InitDesc /\ [][NextDesc]_vars

(***************************************************************************)
(* learn_from_github_commits on its own: short histories of every kind of  *)
(* message, and histories around HistoryWindow messages long whose         *)
(* messages past the window are of a type of their own.                    *)
(***************************************************************************)
MaxMessages == 2

\* commit messages, most recent first as iter_commits yields them
MessagePool ==
    {"feat(api): add parser",
     "fix: crash on empty diff",
     "docs (readme) : typo: fix",
     "update readme",
     "Merge branch (main)",
     "",
     " \n",
     ":"}

\* a history of n messages; those past the window are 'perf(db)' commits
LongHistory(n) ==
    [i \in 1..n |->
        IF i > HistoryWindow THEN "perf(db): late"
        ELSE IF i % 3 = 0 THEN "feat(api): add parser"
        ELSE IF i % 3 = 1 THEN "fix: crash on empty diff"
        ELSE "update readme"]

LearnHistories ==
    SeqsUpTo(MessagePool, MaxMessages)
        \cup {LongHistory(n) : n \in (HistoryWindow - 1)..(HistoryWindow + 2)}

InitLearn ==
    /\ pc = "start"
    /\ entry = "analyze_changes"
    /\ diff = Header
    /\ history \in LearnHistories
    /\ fs = "functions"
    /\ answer = "n"
    /\ split_lines = <<>>
    /\ line_no = 1
    /\ commit_patterns = Patterns0
    /\ file_changes = FileChanges0
    /\ diff_pass = DiffState0
    /\ code_changes = CodeChanges0
    /\ commit_type = None
    /\ commit_scope = None
    /\ commit_desc = None
    /\ result = None
    /\ commit_message = None
    /\ calls = <<>>
    /\ committed = <<>>

NextLearn == LearnBegin \/ LearnStep \/ LearnReturn

SpecLearn == InitLearn /\ [][NextLearn]_vars

(***************************************************************************)
(* generate_detailed_commit_description on the notes of two files, among   *)
(* them two files of the same name in different directories.               *)
(***************************************************************************)
MaxFileNotes == 2

FilePool == {"src/utils.py", "tests/utils.py", "src/auth.py"}

\* notes written by analyze_line_content
FileNotePool == {"fix issues", "add function login", "update documentation"}

InitDescFiles ==
    /\ pc = "desc"
    /\ entry = "analyze_changes"
    /\ diff = Header
    /\ history = <<>>
    /\ fs = "functions"
    /\ answer = "n"
    /\ split_lines = <<>>
    /\ line_no = 1
    /\ commit_patterns = Patterns0
    /\ diff_pass = DiffState0
    /\ \E first \in FilePool, second \in FilePool :
       \E notes1 \in SeqsUpTo(FileNotePool, MaxFileNotes) \ {<<>>},
          notes2 \in SeqsUpTo(FileNotePool, MaxFileNotes) \ {<<>>} :
          /\ first # second
          /\ file_changes = [FileChanges0 EXCEPT !.files = {first, second},
                                                 !.modified_files = {first, second}]
          /\ code_changes =
                [CodeChanges0 EXCEPT
                    !.semantic_changes = <<[file |-> first, notes |-> notes1],
                                           [file |-> second, notes |-> notes2]>>]
    /\ commit_type = TypeChore
    /\ commit_scope = None
    /\ commit_desc = None
    /\ result = None
    /\ commit_message = None
    /\ calls = <<>>
    /\ committed = <<>>

NextDescFiles == GenerateDescription

SpecDescFiles == InitDescFiles /\ [][NextDescFiles]_vars

(***************************************************************************)
(* The properties.  Each is stated from the specification's sentence; the  *)
(* ones the code satisfies hold of every reachable state, the others are   *)
(* violated by a run.                                                      *)
(***************************************************************************)
\* a line that becomes an add event, a line that becomes a remove event
IsAdded(l) == StartsWith(l, "+") /\ ~StartsWith(l, "+++")

IsRemoved(l) == StartsWith(l, "-") /\ ~StartsWith(l, "---")

AddedLines(lines) == {k \in 1..Len(lines) : IsAdded(lines[k])}

RemovedLines(lines) == {k \in 1..Len(lines) : IsRemoved(lines[k])}

\* the composer has run on the diff (split_lines is then diff.split('\n'))
Composed == entry = "analyze_changes" /\ commit_desc # None

\* the keys of a counting dict that no other key occurs more often than
MostFrequent(d) ==
    {d[i].key : i \in {i \in 1..Len(d) : \A j \in 1..Len(d) : d[j].count <= d[i].count}}

SecurityWords == {"password", "secret", "key", "token", "auth"}

\* an added line that names a security keyword and declares a function or a
\* class
SecurityDeclaration(l) ==
    /\ IsAdded(l)
    /\ \E w \in SecurityWords : Contains(l, w)
    /\ Contains(l, "def ") \/ Contains(l, "class ")

\* C1: when analyze_diff_changes classifies an added line that contains a
\* security keyword and also declares a function or class, the owning file is
\* appended to the security category and is not appended to features.
C1_SecurityOverFeature ==
    [][(/\ pc = "dc_loop"
        /\ line_no <= Len(split_lines)
        /\ Truthy(diff_pass.current_file)
        /\ SecurityDeclaration(split_lines[line_no]))
       => /\ diff_pass'.changes.security
                = Append(diff_pass.changes.security, diff_pass.current_file)
          /\ diff_pass'.changes.features = diff_pass.changes.features]_vars

CredentialLine == "+password = \"x\""

\* the only added line of the diff is the credential assignment, and it
\* lies in the section of src/auth.py
OnlyCredentialAdded ==
    /\ split_lines # <<>>
    /\ split_lines[1] = Header
    /\ Cardinality(AddedLines(split_lines)) = 1
    /\ \A k \in AddedLines(split_lines) : split_lines[k] = CredentialLine

\* C2: for a diff whose only added line is the credential assignment the
\* composed type is the security type and the description carries the
\* 'enhance security' note of that file, whatever the context and removed
\* lines produce; and whenever the security category is non-empty the composed
\* type is security.
C2_CredentialIsSecurity ==
    /\ (entry = "analyze_changes" /\ commit_type # None /\ code_changes.security # <<>>)
          => commit_type = TypeSecurity
    /\ (Composed /\ OnlyCredentialAdded)
          => /\ commit_type = TypeSecurity
             /\ \E k \in 1..Len(code_changes.semantic_changes) :
                   /\ code_changes.semantic_changes[k].file = "src/auth.py"
                   /\ "enhance security" \in Range(code_changes.semantic_changes[k].notes)
             /\ StartsWith(commit_desc, "auth.py: ")
             /\ Contains(commit_desc, "enhance security")

\* a credential assignment beside a context line that tags features and a
\* removed declaration: the message was composed with the security type
C2_Witness ==
    /\ pc = "done"
    /\ result # None
    /\ Composed
    /\ OnlyCredentialAdded
    /\ code_changes.features # <<>>
    /\ commit_type = TypeSecurity

\* the order of the categories and the type of each
TypeOrder ==
    <<"security", "fixes", "features", "refactors", "performance", "docs",
      "tests", "style", "dependencies", "scripts">>

TypeNames ==
    <<TypeSecurity, TypeFix, TypeFeat, TypeRefactor, TypePerf, TypeDocs,
      TypeTest, TypeStyle, TypeDeps, TypeChore>>

NonEmptyCategories(ch) == {k \in 1..Len(TypeOrder) : ch[TypeOrder[k]] # <<>>}

\* C3: generate_commit_type returns the type of the first non-empty category
\* in the order security, fix, feature, refactor, performance, docs, test,
\* style, dependency, script; with all of them empty, the most frequent type
\* of the patterns; with no learnt type, the chore type.
C3_TypeSelection ==
    (entry = "analyze_changes" /\ commit_type # None) =>
        IF NonEmptyCategories(code_changes) # {}
        THEN commit_type = TypeNames[Min(NonEmptyCategories(code_changes))]
        ELSE IF commit_patterns.types # <<>>
        THEN commit_type \in MostFrequent(commit_patterns.types)
        ELSE commit_type = TypeChore

\* fixes, features and style are non-empty and security is not: the type is
\* fix
C3_Witness ==
    /\ pc = "scope"
    /\ code_changes.security = <<>>
    /\ code_changes.fixes # <<>>
    /\ code_changes.features # <<>>
    /\ code_changes.style # <<>>
    /\ commit_type = TypeFix

\* p is the longest string every member of S starts with
IsCommonPrefix(p, S) ==
    /\ \A s \in S : StartsWith(s, p)
    /\ ~\E s \in S :
          /\ Len(s) > Len(p)
          /\ \A t \in S : StartsWith(t, SubSeq(s, 1, Len(p) + 1))

\* C4: generate_commit_scope returns None with no changed file; the top-level
\* directory when every file has the same one; otherwise the common prefix of
\* the files' top-level components when it is non-empty; otherwise the most
\* frequent scope of the patterns; otherwise None.  The message omits a None
\* or empty scope.
C4_ScopeSelection ==
    LET files == file_changes.files
        dirs == {TopComponent(Dirname(f)) : f \in files}
        tops == {TopComponent(f) : f \in files}
    IN  /\ Composed =>
            /\ files = {} => commit_scope = None
            /\ Cardinality(dirs) = 1 => commit_scope \in dirs
            /\ (Cardinality(dirs) > 1 /\ ~IsCommonPrefix("", tops))
                  => IsCommonPrefix(commit_scope, tops)
            /\ (Cardinality(dirs) > 1 /\ IsCommonPrefix("", tops))
                  => IF commit_patterns.scopes # <<>>
                     THEN commit_scope \in MostFrequent(commit_patterns.scopes)
                     ELSE commit_scope = None
        /\ (Composed /\ pc = "done" /\ result # None) =>
              IF commit_scope \in {None, ""}
              THEN StartsWith(result, commit_type \o ": ")
              ELSE StartsWith(result, commit_type \o "(" \o commit_scope \o "): ")

\* two files under src/: the scope is src and the message carries it
C4_Witness ==
    /\ pc = "done"
    /\ Composed
    /\ Cardinality(file_changes.files) = 2
    /\ commit_scope = "src"
    /\ result # None
    /\ StartsWith(result, commit_type \o "(src): ")

\* the lines that start with a marker, and the text after the marker
Marked(lines, marker) == {k \in 1..Len(lines) : StartsWith(lines[k], marker)}

After(line, marker) == From(line, Len(marker))

\* analyze_file_changes has returned
Parsed == pc = "diff_changes"

\* C5: on a diff with exactly one 'rename from A' / 'rename to B' pair,
\* analyze_file_changes returns renamed_files = {(A, B)} and neither A nor B
\* is in modified_files.
C5_SingleRename ==
    (/\ Parsed
     /\ Cardinality(Marked(split_lines, "rename from ")) = 1
     /\ Cardinality(Marked(split_lines, "rename to ")) = 1)
    => \A i \in Marked(split_lines, "rename from ") :
       \A j \in Marked(split_lines, "rename to ") :
          LET A == After(split_lines[i], "rename from ")
              B == After(split_lines[j], "rename to ")
          IN  /\ file_changes.renamed_files = {<<A, B>>}
              /\ A \notin file_changes.modified_files
              /\ B \notin file_changes.modified_files

\* the file section of line k: its 'diff --git' line, 0 before the first
SectionOf(lines, k) == Max({0} \cup {h \in Marked(lines, "diff --git") : h <= k})

\* the renames of a diff, each 'rename from' with the 'rename to' of its
\* section
SectionRenames(lines) ==
    {<<After(lines[p[1]], "rename from "), After(lines[p[2]], "rename to ")>> :
        p \in {q \in Marked(lines, "rename from ") \X Marked(lines, "rename to ") :
                  SectionOf(lines, q[1]) = SectionOf(lines, q[2])}}

\* no path of a rename marker holds a blank
PlainRenames(lines) ==
    /\ \A k \in Marked(lines, "rename from ") :
          ~Contains(After(lines[k], "rename from "), " ")
    /\ \A k \in Marked(lines, "rename to ") :
          ~Contains(After(lines[k], "rename to "), " ")

\* C6: analyze_file_changes pairs each 'rename from' with the 'rename to' of
\* the same file section, and modified_files is files minus added_files minus
\* deleted_files minus the old and the new path of every rename (stated for
\* the diffs whose renamed paths hold no blank).
C6_RenamePairing ==
    (Parsed /\ PlainRenames(split_lines)) =>
        LET renames == SectionRenames(split_lines)
            paths == {r[1] : r \in renames} \cup {r[2] : r \in renames}
        IN  /\ file_changes.renamed_files = renames
            /\ file_changes.modified_files =
                  ((file_changes.files \ file_changes.added_files)
                      \ file_changes.deleted_files) \ paths

\* C7: for a non-empty diff with no added and no removed line the composed
\* type is the chore type and the composed description is 'update code'
\* (stated for the diffs that open with a file header, with no learnt type
\* to fall back on).
C7_NoChangeFallback ==
    (/\ Composed
     /\ StartsWith(diff, "diff --git a/")
     /\ commit_patterns.types = <<>>
     /\ AddedLines(split_lines) = {}
     /\ RemovedLines(split_lines) = {})
    => /\ commit_type = TypeChore
       /\ commit_desc = "update code"

C9_MessageFormat ==
    (Composed /\ pc = "done" /\ result # None) =>
        LET metrics == code_changes.code_metrics
            base == commit_type
                    \o (IF commit_scope \in {None, ""} THEN ""
                        ELSE "(" \o commit_scope \o ")")
                    \o ": " \o commit_desc
        IN  IF metrics.lines_added + metrics.lines_removed > MetricsThreshold
            THEN StartsWith(result, base)
            ELSE result = base

\* C10: analyze_file_changes raises on no input: a line it cannot parse does
\* not end the pass.
C10_ParserNeverRaises == file_changes.raised = ""

\* the diff is a section of src/auth.py that both passes read to the end and
\* whose file the working tree gives the structure of
WellFormedDiff ==
    /\ StartsWith(diff, Header)
    /\ fs = "functions"
    /\ file_changes.raised = ""
    /\ code_changes.raised = ""
    /\ None \notin (file_changes.added_files \cup file_changes.deleted_files)

\* C11: with an empty or an unreadable commit history analyze_changes on a
\* non-empty, well-formed diff still returns a composed message: the failure
\* of the learner is not an error of the run.
C11_HistoryFailureTolerated ==
    (/\ entry = "analyze_changes"
     /\ pc = "done"
     /\ history \in {<<>>, Unreadable}
     /\ WellFormedDiff)
    => result # None

\* analyze_line_content is about to classify split_lines[line_no]
Classifying == pc = "classify" /\ line_no <= Len(split_lines)

\* the line declares a function or a class
Declares(line) == Contains(line, "def ") \/ Contains(line, "class ")

\* the category of the first rule that matches, in the order security,
\* structural addition, fix, refactor, performance, documentation marker,
\* configuration, dependency; "" when none matches
FirstInStatedOrder(line) ==
    IF SecurityRe(line) THEN "security"
    ELSE IF Declares(line) THEN "features"
    ELSE IF FixRe(line) THEN "fixes"
    ELSE IF RefactorRe(line) THEN "refactors"
    ELSE IF PerformanceRe(line) THEN "performance"
    ELSE IF DocRe(line) THEN "docs"
    ELSE IF ConfigRe(line) THEN "config"
    ELSE IF ImportRe(line) THEN "dependencies"
    ELSE ""

\* C12: analyze_line_content tags an added line with the category of the first
\* rule that matches in the order security, structural addition, fix,
\* refactor, performance, test, documentation marker, configuration,
\* dependency, script: a line matching fix and documentation is tagged fix, a
\* line matching refactor and performance is tagged refactor.
C12_RuleOrder ==
    [][(Classifying /\ FirstInStatedOrder(split_lines[line_no]) # "")
       => LET cat == FirstInStatedOrder(split_lines[line_no])
          IN  \/ diff_pass'.changes[cat]
                    = Append(diff_pass.changes[cat], diff_pass.current_file)
              \* a declaration of a test is a structural addition tagged tests
              \/ /\ cat = "features"
                 /\ diff_pass'.changes.tests
                       = Append(diff_pass.changes.tests, diff_pass.current_file)]_vars

\* the line matches one of the rules of analyze_line_content
MatchesSomeRule(line) ==
    \/ Declares(line)
    \/ ImportRe(line)
    \/ DocRe(line)
    \/ ConfigRe(line)
    \/ SecurityRe(line)
    \/ FixRe(line)
    \/ PerformanceRe(line)
    \/ RefactorRe(line)

\* the notes of a file in semantic_changes
NotesOf(sc, file) ==
    IF \E k \in 1..Len(sc) : sc[k].file = file
    THEN sc[CHOOSE k \in 1..Len(sc) : sc[k].file = file].notes
    ELSE <<>>

\* C13: a call of analyze_line_content on a line that matches a rule appends
\* the file to exactly one category list, once, and one note to the notes of
\* the file; the other lists and every counter of code_metrics stay as they
\* were; a line that matches no rule changes nothing.
C13_FirstMatchWins ==
    [][Classifying =>
        LET before == diff_pass.changes
            after == diff_pass'.changes
            file == diff_pass.current_file
        IN  IF MatchesSomeRule(split_lines[line_no])
            THEN /\ \E cat \in Categories :
                       /\ after[cat] = Append(before[cat], file)
                       /\ \A other \in Categories \ {cat} : after[other] = before[other]
                 /\ Len(NotesOf(after.semantic_changes, file))
                       = Len(NotesOf(before.semantic_changes, file)) + 1
                 /\ SubSeq(NotesOf(after.semantic_changes, file), 1,
                           Len(NotesOf(before.semantic_changes, file)))
                       = NotesOf(before.semantic_changes, file)
                 /\ Len(after.semantic_changes) <= 1
                 /\ after.code_metrics = before.code_metrics
                 /\ after.added_lines = before.added_lines
                 /\ after.removed_lines = before.removed_lines
            ELSE after = before]_vars

\* two lines were classified, the second of which matches the configuration
\* and the security rule: one list holds the file once, another once, and
\* the file has two notes
C13_Witness ==
    /\ pc = "classify"
    /\ line_no = 3
    /\ split_lines[2] = "config.token = 1"
    /\ diff_pass.changes.config = <<"src/auth.py">>
    /\ diff_pass.changes.security = <<>>
    /\ Len(NotesOf(diff_pass.changes.semantic_changes, "src/auth.py")) = 2

\* analyze_diff_changes has just returned code_changes
Classified == pc \in {"structure", "generate"}

\* the lines of the diff within the window of two lines around line k
Neighbours(lines, k) ==
    {j \in 1..Len(lines) : j # k /\ j >= k - 2 /\ j <= k + 2}

\* line k is the only declaration of the diff, it is an added line, it does
\* not name a test itself, and a neighbouring line of its section speaks of
\* tests or of documentation
SurroundedDeclaration(lines, k) ==
    /\ IsAdded(lines[k])
    /\ Declares(lines[k])
    /\ ~Contains(lines[k], "test_") /\ ~Contains(lines[k], "Test")
    /\ \A j \in 1..Len(lines) : j # k => ~Declares(lines[j])
    /\ \E j \in Neighbours(lines, k) :
          /\ ~StartsWith(lines[j], "diff --git")
          /\ Contains(Lower(lines[j]), "test") \/ Contains(Lower(lines[j]), "doc")

\* C14: a file whose only declaration is an added function or class
\* declaration surrounded by test-indicating or documentation-indicating
\* lines is tagged tests or docs by analyze_diff_changes and is not tagged
\* features.
C14_ContextOverride ==
    (/\ Classified
     /\ StartsWith(diff, Header)
     /\ \E k \in 1..Len(split_lines) : SurroundedDeclaration(split_lines, k))
    => /\ code_changes.features = <<>>
       /\ code_changes.tests # <<>> \/ code_changes.docs # <<>>

\* the events of context_lines that are not remove events
WithoutRemoved(events) ==
    LET at == Ascending({j \in 1..Len(events) : events[j][1] # "remove"})
    IN  [k \in 1..Len(at) |-> events[at[k]]]

\* the loop of analyze_diff_changes is about to read a removed line of a file
ReadingRemoved ==
    /\ pc = "dc_loop"
    /\ line_no <= Len(split_lines)
    /\ IsRemoved(split_lines[line_no])
    /\ Truthy(diff_pass.current_file)

\* C15: a removed line is not run against the category rules: reading it
\* appends the file to no category list, and the analyze_context pass over
\* the section gives what it gives without the remove events; a removed
\* function or class declaration adds one to functions_modified or
\* classes_modified and appends one 'modify X' note, any other removed line
\* only adds one to lines_removed and is appended to removed_lines.
C15_RemovedLinesNotClassified ==
    [][ReadingRemoved =>
        LET before == diff_pass.changes
            after == diff_pass'.changes
            file == diff_pass.current_file
            content == From(split_lines[line_no], 1)
            counted == [before EXCEPT !.removed_lines = Append(@, content),
                                      !.code_metrics.lines_removed = @ + 1]
            notes == NotesOf(before.semantic_changes, file)
            kind == IF Contains(content, "def ") THEN "function" ELSE "class"
            kind_kw == IF kind = "function" THEN "def " ELSE "class "
        IN  /\ \A cat \in Categories : after[cat] = before[cat]
            /\ after.added_lines = before.added_lines
            /\ after.removed_lines = Append(before.removed_lines, content)
            /\ after.code_metrics.lines_removed = before.code_metrics.lines_removed + 1
            /\ IF Declares(content)
               THEN /\ after.code_metrics =
                          IF kind = "function"
                          THEN [counted.code_metrics EXCEPT !.functions_modified = @ + 1]
                          ELSE [counted.code_metrics EXCEPT !.classes_modified = @ + 1]
                    /\ NotesOf(after.semantic_changes, file)
                          = Append(notes, "modify " \o DeclaredName(content, kind_kw)
                                             \o " " \o kind)
               ELSE after = counted
            /\ analyze_context(after, file, diff_pass'.context_lines)
                  = analyze_context(after, file, WithoutRemoved(diff_pass'.context_lines))
            /\ diff_pass'.context_lines
                  = Append(diff_pass.context_lines, <<"remove", content>>)]_vars

\* the diff removes one function declaration: the pass returns one modified
\* function, one note and no category
C15_Witness ==
    /\ Classified
    /\ diff = Header \o "\n-def old_login(user):"
    /\ code_changes.code_metrics.functions_modified = 1
    /\ code_changes.code_metrics.lines_removed = 1
    /\ code_changes.removed_lines = <<"def old_login(user):">>
    /\ code_changes.semantic_changes
          = <<[file |-> "src/auth.py", notes |-> <<"modify old_login function">>]>>
    /\ \A cat \in Categories : code_changes[cat] = <<>>

\* the distinct notes of the file that begin with the action word a
SharingAction(a) ==
    {c \in Range(code_changes.semantic_changes[1].notes) : Action(c) = a}

\* C16: generate_detailed_commit_description removes the duplicates among the
\* notes of a file, and where more than two distinct notes share their
\* leading action word it lists at most two of them followed by
\* 'and N more', N being the number of those notes minus two.
C16_AndNMore ==
    (pc = "report" /\ Len(code_changes.semantic_changes) = 1)
    => \A c \in Range(code_changes.semantic_changes[1].notes) :
          LET n == Cardinality(SharingAction(Action(c)))
          IN  n > 2 => Contains(commit_desc, " and " \o IntToStr(n - 2) \o " more")

\* learn_from_github_commits has returned the counters of a readable history
Learnt == pc = "file_changes" /\ history # Unreadable

\* the positions of the messages the learner considers: the first
\* HistoryWindow of the history
Window == {i \in 1..Len(history) : i <= HistoryWindow}

\* the head of a message, the text before its first ':'
HeadOf(msg) == SplitOnce(Strip(msg), ":")[1]

WithColon == {i \in Window : Contains(Strip(history[i]), ":")}

WithScope == {i \in WithColon : Contains(HeadOf(history[i]), "(")}

\* the sum of the counts of a counter
RECURSIVE SumCounts(_)
SumCounts(d) == IF d = <<>> THEN 0 ELSE Head(d).count + SumCounts(Tail(d))

\* the count of a key, 0 for a key the counter does not hold
CountOf(d, key) ==
    IF \E i \in 1..Len(d) : d[i].key = key
    THEN d[CHOOSE i \in 1..Len(d) : d[i].key = key].count
    ELSE 0

\* the type a message is counted under: the text before the first '(' of
\* its head, the whole head when it has none
TypeOf(msg) ==
    LET head == Strip(HeadOf(msg))
    IN  IF Contains(head, "(")
        THEN Strip(SubSeq(head, 1, Min(Occurrences(head, "(")) - 1))
        ELSE head

\* C17: the learner considers at most the HistoryWindow most recent messages;
\* a message with a ':' is counted under one type (the text before the '(' of
\* its head, or the whole head) and, when its head holds a '(', under one
\* scope; empty messages and messages without ':' change no counter.  So the
\* type counts sum to the number of considered messages with a ':' and the
\* scope counts to the number of those whose head holds a '('.
C17_LearnerCounts ==
    Learnt =>
        /\ SumCounts(commit_patterns.types) = Cardinality(WithColon)
        /\ SumCounts(commit_patterns.scopes) = Cardinality(WithScope)
        /\ SumCounts(commit_patterns.descriptions) = Cardinality(WithColon)
        /\ \A i \in WithColon :
              CountOf(commit_patterns.types, TypeOf(history[i]))
                 = Cardinality({j \in WithColon : TypeOf(history[j]) = TypeOf(history[i])})
        /\ \A i \in 1..Len(commit_patterns.types) :
              \E j \in WithColon : TypeOf(history[j]) = commit_patterns.types[i].key

\* a history longer than the window was learnt from: two messages of three
\* within the window hold a ':', one of three a scope, and the type of the
\* messages past the window was not counted
C17_Witness ==
    /\ Learnt
    /\ Len(history) = HistoryWindow + 2
    /\ SumCounts(commit_patterns.types) = 67
    /\ SumCounts(commit_patterns.scopes) = 33
    /\ CountOf(commit_patterns.types, "perf") = 0

\* the lines the claim keeps out of the context events: file markers, hunk
\* headers, index and mode lines, empty lines
NotContext(line) ==
    \/ line = ""
    \/ StartsWith(line, "@@")
    \/ StartsWith(line, "+++")
    \/ StartsWith(line, "---")
    \/ StartsWith(line, "index ")
    \/ StartsWith(line, "new file mode")
    \/ StartsWith(line, "deleted file mode")

\* C18: of the lines analyze_diff_changes reads, the '+' lines become add
\* events and the '-' lines remove events, marker stripped, and only
\* non-empty lines that are neither file markers nor '@@' hunk headers nor
\* index or mode lines become context events, so that none of these is
\* passed to analyze_context.
C18_ContextEvents ==
    Truthy(diff_pass.current_file) =>
        \A k \in 1..Len(diff_pass.context_lines) :
            LET event == diff_pass.context_lines[k]
            IN  event[1] = "context" => ~NotContext(event[2])

\* a step of main before the prompt raised: get_git_diff, one of the two
\* passes, or the composition of the message
RaisedBeforePrompt ==
    /\ entry = "main"
    /\ pc = "done"
    /\ "Prompt.ask" \notin Range(calls)
    /\ diff # ""

\* the calls of the run up to the first call of name
CallsBefore(name) ==
    {calls[i] : i \in {i \in 1..Len(calls) : \A j \in 1..i : calls[j] # name}}

\* C19: main records the commit at most once, and only after the diff was
\* found non-empty, the message was composed without an exception and the
\* user answered 'y' to the prompt; when the diff is empty, when a step
\* before the prompt raises or when the user answers 'n', nothing is handed
\* to the version-control backend.
C19_CommitWorkflow ==
    /\ Len(committed) <= 1
    /\ committed # <<>> =>
          /\ entry = "main"
          /\ diff # ""
          /\ file_changes.raised = "" /\ code_changes.raised = ""
          /\ commit_message # None
          /\ committed = <<commit_message>>
          /\ Lower(answer) = "y"
          /\ {"get_git_diff", "analyze_file_changes", "analyze_diff_changes",
              "generate_commit_message", "Prompt.ask"}
                \subseteq CallsBefore("repo.git.commit")
    /\ (pc = "done" /\ (diff = "" \/ RaisedBeforePrompt \/ Lower(answer) = "n"))
          => committed = <<>>

\* a run of main that committed: the prompt was answered 'y' and the backend
\* got the composed message
C19_Witness ==
    /\ entry = "main"
    /\ pc = "done"
    /\ committed = <<commit_message>>
    /\ commit_message # None
    /\ answer = "y"

\* the paths the diff pass filed under a category or wrote notes for
ClassifiedPaths ==
    UNION {Range(code_changes[cat]) : cat \in Categories}
        \cup {code_changes.semantic_changes[k].file :
                 k \in 1..Len(code_changes.semantic_changes)}

\* a header 'diff --git a/X b/Y' whose paths hold no space
PlainHeader(line) ==
    LET parts == Split(line, " ")
    IN  /\ Len(parts) = 4
        /\ StartsWith(parts[3], "a/")
        /\ StartsWith(parts[4], "b/")

\* C20: after analyze_file_changes and analyze_diff_changes have read the
\* same diff, every path of a category list or of semantic_changes is in
\* file_changes['files'], and files_changed is the number of 'diff --git'
\* headers, also for sections whose a/ and b/ paths differ.
C20_PathConsistency ==
    (/\ Classified
     /\ \A k \in Marked(split_lines, "diff --git") : PlainHeader(split_lines[k])
     /\ file_changes.raised = ""
     /\ code_changes.raised = "")
    => /\ ClassifiedPaths \subseteq file_changes.files
       /\ code_changes.code_metrics.files_changed
             = Cardinality(Marked(split_lines, "diff --git"))

\* the scopes recorded in the learnt patterns
RecordedScopes ==
    IF commit_patterns.valid
    THEN {commit_patterns.scopes[i].key : i \in 1..Len(commit_patterns.scopes)}
    ELSE {}

\* C21: the scope generate_commit_scope returns is None (or empty, for files
\* at the top of the tree), the complete top-level path component of a
\* changed file, or a scope recorded in the patterns; it is never a fragment
\* of a directory name, such as 'sr' for files under src/ and srv/.
C21_ScopeIsWholeComponent ==
    commit_scope \in
        {None, ""} \cup {TopComponent(f) : f \in file_changes.files}
                   \cup RecordedScopes

\* C22: the message analyze_changes returns holds the '(A+/B- lines)' suffix
\* of the metrics at most once, whatever the number of added and removed
\* lines, totals above MetricsThreshold included.
C22_MetricsSuffixOnce ==
    (entry = "analyze_changes" /\ pc = "done" /\ result # None /\ diff # "")
    => Cardinality(Occurrences(result, MetricsText(code_changes.code_metrics))) <= 1

\* the entry the description has for the notes of one file taken alone
EntryOf(e) == FilePart([file |-> Basename(e.file), notes |-> e.notes])

\* C23: generate_detailed_commit_description keeps the notes of distinct
\* files apart: the description has one 'file: notes' entry for each path of
\* semantic_changes, made of the notes of that path alone, also for two files
\* of the same base name in different directories.
C23_NotesKeptApart ==
    (/\ pc = "report"
     /\ Len(code_changes.semantic_changes) = 2
     /\ code_changes.semantic_changes[1].file # code_changes.semantic_changes[2].file)
    => commit_desc = EntryOf(code_changes.semantic_changes[1]) \o "; "
                        \o EntryOf(code_changes.semantic_changes[2])

====
